---- MODULE Spec2Model ----
(***************************************************************************)
(* Model of DbManager (src/db_manager.py): the recipe store, the meal-plan *)
(* walk (generate_meal_plan), serving-based scaling                        *)
(* (adjust_recipe_by_servings) and the shopping list (get_shopping_list).  *)
(*                                                                         *)
(* Python floats are IEEE 754 binary64 values.  They are modelled exactly: *)
(* a float is a sign, a 53-bit significand kept as a little-endian bit     *)
(* sequence, and a binary exponent; every operation computes the exact     *)
(* result and rounds it to nearest, ties to even, as the hardware does.    *)
(* Overflow, underflow and subnormals cannot occur for the magnitudes the  *)
(* model draws and are not modelled; -0.0 is identified with 0.0 (they     *)
(* compare equal in Python).                                               *)
(***************************************************************************)
EXTENDS Integers, Sequences, FiniteSets, TLC

\* ---------------------------------------------------------------- bounds
\* recipe ids and ingredient ids of the stores the meal planner is run on
MaxRecipes == 3
MaxIngredients == 2
\* num_recipes ranges over -1 .. MaxTarget
MaxTarget == 4
\* number of rows of the stores the scaling operations are run on
MaxLinks == 2

\* primary keys handed out to rows of the stores the write operations run on
MaxRowId == 3

\* significand width of a Python float (binary64)
MantissaBits == 53

\* ------------------------------------------------ natural numbers as bits
\* little-endian bit sequences, the most significant bit last and equal to 1

RECURSIVE NatBits(_)
NatBits(n) ==
    IF n = 0 THEN <<>> ELSE <<n % 2>> \o NatBits(n \div 2)

RECURSIVE Trim(_)
Trim(b) ==
    IF b = <<>> THEN <<>>
    ELSE IF b[Len(b)] = 0 THEN Trim(SubSeq(b, 1, Len(b) - 1)) ELSE b

Zeros(n) == [i \in 1..n |-> 0]

RECURSIVE AddBits(_, _, _)
AddBits(a, b, c) ==
    IF a = <<>> /\ b = <<>> THEN (IF c = 0 THEN <<>> ELSE <<c>>)
    ELSE LET x == IF a = <<>> THEN 0 ELSE Head(a)
             y == IF b = <<>> THEN 0 ELSE Head(b)
             s == x + y + c
         IN  <<s % 2>> \o AddBits(IF a = <<>> THEN <<>> ELSE Tail(a),
                                  IF b = <<>> THEN <<>> ELSE Tail(b),
                                  s \div 2)

\* a - b - c for a >= b + c
RECURSIVE SubBits(_, _, _)
SubBits(a, b, c) ==
    IF a = <<>> THEN <<>>
    ELSE LET y == IF b = <<>> THEN 0 ELSE Head(b)
             d == Head(a) - y - c
         IN  <<d % 2>> \o SubBits(Tail(a),
                                  IF b = <<>> THEN <<>> ELSE Tail(b),
                                  IF d < 0 THEN 1 ELSE 0)

\* a < b, for a and b whose most significant bits are 1 (or of equal length)
RECURSIVE LessBits(_, _)
LessBits(a, b) ==
    IF Len(a) # Len(b) THEN Len(a) < Len(b)
    ELSE IF a = <<>> THEN FALSE
    ELSE IF a[Len(a)] # b[Len(b)] THEN a[Len(a)] < b[Len(b)]
    ELSE LessBits(SubSeq(a, 1, Len(a) - 1), SubSeq(b, 1, Len(b) - 1))

\* the value of a bit sequence of fewer than 31 bits
RECURSIVE IntOf(_)
IntOf(b) ==
    IF b = <<>> THEN 0 ELSE Head(b) + 2 * IntOf(Tail(b))

\* a * k + c for integers 0 <= c < k < 2^30
RECURSIVE MulSmall(_, _, _)
MulSmall(a, k, c) ==
    IF a = <<>> THEN NatBits(c)
    ELSE LET t == Head(a) * k + c
         IN  <<t % 2>> \o MulSmall(Tail(a), k, t \div 2)

\* a * b, taking b fifteen bits at a time
RECURSIVE MulBits(_, _)
MulBits(a, b) ==
    IF b = <<>> \/ a = <<>> THEN <<>>
    ELSE IF Len(b) <= 15 THEN Trim(MulSmall(a, IntOf(b), 0))
    ELSE AddBits(Trim(MulSmall(a, IntOf(SubSeq(b, 1, 15)), 0)),
                 LET r == MulBits(a, SubSeq(b, 16, Len(b)))
                 IN  IF r = <<>> THEN <<>> ELSE Zeros(15) \o r,
                 0)

\* the number of low zero bits of a non-empty trimmed sequence
RECURSIVE LowZeros(_)
LowZeros(b) ==
    IF b = <<>> \/ Head(b) = 1 THEN 0 ELSE 1 + LowZeros(Tail(b))

\* quotient bits (most significant first) of the long division of the bit
\* string num (most significant first) by the positive integer d, with the
\* running remainder r; the final remainder is appended as a sticky bit
RECURSIVE LongDiv(_, _, _)
LongDiv(num, d, r) ==
    IF num = <<>> THEN <<IF r = 0 THEN 0 ELSE 1>>
    ELSE LET t == 2 * r + Head(num)
         IN  IF t >= d THEN <<1>> \o LongDiv(Tail(num), d, t - d)
                       ELSE <<0>> \o LongDiv(Tail(num), d, t)

Reverse(s) == [i \in 1..Len(s) |-> s[Len(s) + 1 - i]]

\* ------------------------------------------------------------- floats
FZero == [s |-> 0, m |-> <<>>, e |-> 0]

\* (-1)^sign * bits * 2^exp rounded to nearest, ties to even
FRound(sign, bits, exp) ==
    LET b == Trim(bits)
        L == Len(b)
    IN  IF L = 0 THEN FZero
        ELSE IF L <= MantissaBits
        THEN [s |-> sign, m |-> Zeros(MantissaBits - L) \o b, e |-> exp - (MantissaBits - L)]
        ELSE LET d      == L - MantissaBits
                 kept   == SubSeq(b, d + 1, L)
                 guard  == b[d]
                 sticky == \E i \in 1..(d - 1) : b[i] = 1
                 up     == guard = 1 /\ (sticky \/ kept[1] = 1)
                 r      == IF up THEN AddBits(kept, <<1>>, 0) ELSE kept
             IN  IF Len(r) > MantissaBits
                 THEN [s |-> sign, m |-> SubSeq(r, 2, Len(r)), e |-> exp + d + 1]
                 ELSE [s |-> sign, m |-> r, e |-> exp + d]

Abs(n) == IF n < 0 THEN -n ELSE n
SignOf(n) == IF n < 0 THEN 1 ELSE 0

\* int -> float conversion (exact for |n| < 2^53)
FromInt(n) == FRound(SignOf(n), NatBits(Abs(n)), 0)

\* Python's int / int (true division), b # 0: the correctly rounded quotient
FDivInt(a, b) ==
    IF a = 0 THEN FZero
    ELSE LET k   == MantissaBits + 2 + Len(NatBits(Abs(b)))
             num == Reverse(NatBits(Abs(a))) \o Zeros(k)
             q   == LongDiv(num, Abs(b), 0)
         IN  FRound((SignOf(a) + SignOf(b)) % 2, Reverse(q), -(k + 1))

\* float * float
FMul(x, y) ==
    IF x.m = <<>> \/ y.m = <<>> THEN FZero
    ELSE LET zx == LowZeros(x.m)
             zy == LowZeros(y.m)
             ox == SubSeq(x.m, zx + 1, Len(x.m))
             oy == SubSeq(y.m, zy + 1, Len(y.m))
             p  == IF Len(ox) <= Len(oy) THEN MulBits(oy, ox) ELSE MulBits(ox, oy)
         IN  FRound((x.s + y.s) % 2, p, x.e + zx + y.e + zy)

\* float + float
FAdd(x, y) ==
    IF x.m = <<>> THEN y
    ELSE IF y.m = <<>> THEN x
    ELSE LET e0 == IF x.e < y.e THEN x.e ELSE y.e
             mx == Zeros(x.e - e0) \o x.m
             my == Zeros(y.e - e0) \o y.m
         IN  IF x.s = y.s THEN FRound(x.s, AddBits(mx, my, 0), e0)
             ELSE IF mx = my THEN FZero
             ELSE IF LessBits(mx, my) THEN FRound(y.s, SubBits(my, mx, 0), e0)
             ELSE FRound(x.s, SubBits(mx, my, 0), e0)

\* ---------------------------------------------------------------- state
VARIABLES
    recipes,             \* table recipes: recipe_id -> recipe_servings
    ingredients,         \* table ingredients: the ingredient_ids
    recipe_ingredients,  \* table recipe_ingredients: the rows
    pc,                  \* "idle", "loop" (inside generate_meal_plan's while), "done"
    call,                \* the operation called and its arguments
    recipe_list,         \* generate_meal_plan: the recipes selected so far
    current_recipe,      \* generate_meal_plan: the recipe the walk stands on
    via,                 \* generate_meal_plan: the branch that selected each recipe
    reads,               \* queries issued to the store by the running call
    iterations,          \* generate_meal_plan: executions of the while body so far
    result               \* the outcome of the call: [status, value]

vars == <<recipes, ingredients, recipe_ingredients, pc, call, recipe_list,
          current_recipe, via, reads, iterations, result>>
store == <<recipes, ingredients, recipe_ingredients>>
walk == <<recipe_list, current_recipe, via, iterations>>
selection == <<recipe_list, current_recipe, via>>

RecipeIds == 1..MaxRecipes
IngredientIds == 1..MaxIngredients
NoRecipe == 0
NoCall == [op |-> "none"]
NoResult == [status |-> "none", value |-> <<>>]

Raise(exception) == [status |-> exception, value |-> <<>>]
Return(v) == [status |-> "ok", value |-> v]

\* a RecipeIngredient row
Row(id, r, i, q) ==
    [recipe_ingredients_id |-> id, recipe_id |-> r, ingredient_id |-> i,
     ingredient_quantity |-> q]

\* ------------------------------------------------------------ store reads
\* get_recipe_by_id: the recipe's servings, or NotFoundError
get_recipe_by_id(id) ==
    IF id \in DOMAIN recipes THEN Return(recipes[id]) ELSE Raise("NotFoundError")

get_all_recipes == DOMAIN recipes

\* the rows of a set ordered by primary key
RECURSIVE RowSeq(_)
RowSeq(rows) ==
    IF rows = {} THEN <<>>
    ELSE LET first == CHOOSE l \in rows :
                        \A k \in rows : l.recipe_ingredients_id <= k.recipe_ingredients_id
         IN  <<first>> \o RowSeq(rows \ {first})

\* get_all_recipe_ingredients returning an empty list for a recipe without rows
get_all_recipe_ingredients_empty_ok(recipe) ==
    IF get_recipe_by_id(recipe).status # "ok" THEN Raise("NotFoundError")
    ELSE Return(RowSeq({l \in recipe_ingredients : l.recipe_id = recipe}))

\* get_all_recipe_ingredients: the rows of the recipe; NotFoundError when the
\* recipe is missing and also when it has no rows
get_all_recipe_ingredients(recipe) ==
    IF get_recipe_by_id(recipe).status # "ok" THEN Raise("NotFoundError")
    ELSE LET rows == {l \in recipe_ingredients : l.recipe_id = recipe}
         IN  IF rows # {} THEN Return(RowSeq(rows)) ELSE Raise("NotFoundError")

\* the query without its filter on the ingredient: the recipes of all rows
get_recipes_from_ingredient_unfiltered(ingredient_id) ==
    {l.recipe_id : l \in recipe_ingredients}

\* get_recipes_from_ingredient: the recipes of the rows that name the ingredient
get_recipes_from_ingredient(ingredient_id) ==
    {l.recipe_id : l \in {k \in recipe_ingredients : k.ingredient_id = ingredient_id}}

SeqRange(q) == {q[k] : k \in 1..Len(q)}

\* ---------------------------------------------------- generate_meal_plan
\* the early return taken for negative counts only
NoRecipesRequestedNegativeOnly(n) == n < 0

\* line 719: the guard of the early return
NoRecipesRequested(n) == n <= 0

\* the loop running while the plan holds at most n recipes
LoopContinuesInclusive(n) == Cardinality(recipe_list) <= n

\* the loop running until every recipe of the store is in the plan
LoopContinuesUntilStore(n) == Cardinality(recipe_list) < Cardinality(DOMAIN recipes)

\* line 726: the loop condition
LoopContinues(n) == Cardinality(recipe_list) < n

\* lines 718-724: the early return, the random start
StartMealPlan(n) ==
    /\ pc = "idle"
    /\ call' = [op |-> "generate_meal_plan", num_recipes |-> n]
    /\ UNCHANGED store
    /\ IF NoRecipesRequested(n)
       THEN /\ pc' = "done"
            /\ result' = Return({})
            /\ UNCHANGED <<walk, reads>>
       ELSE /\ reads' = reads + 1
            /\ IF get_all_recipes = {}
               THEN \* random.choice of an empty sequence
                    /\ pc' = "done"
                    /\ result' = Raise("IndexError")
                    /\ UNCHANGED walk
               ELSE \E first_recipe \in get_all_recipes :
                    /\ recipe_list' = {first_recipe}
                    /\ current_recipe' = first_recipe
                    /\ via' = [via EXCEPT ![first_recipe] = "start"]
                    /\ pc' = "loop"
                    /\ UNCHANGED <<iterations, result>>

\* lines 727-756: one iteration of the while loop
MealPlanIteration ==
    /\ pc = "loop"
    /\ LoopContinues(call.num_recipes)
    /\ UNCHANGED <<store, call>>
    /\ iterations' = iterations + 1
    /\ LET recipe_ingredient == get_all_recipe_ingredients(current_recipe)
       IN  IF recipe_ingredient.status # "ok"
           THEN \* the NotFoundError is not caught (only ValueError is)
                /\ pc' = "done"
                /\ result' = Raise("NotFoundError")
                /\ reads' = reads + 2
                /\ UNCHANGED selection
           ELSE LET links == recipe_ingredient.value
                    overlapping_recipes ==
                        UNION {get_recipes_from_ingredient(links[k].ingredient_id) :
                                   k \in 1..Len(links)}
                    overlap_next == overlapping_recipes \ recipe_list
                    fallback == overlap_next = {}
                    potential_next_recipes ==
                        IF fallback THEN get_all_recipes \ recipe_list ELSE overlap_next
                    issued == 2 + Len(links) + (IF fallback THEN 1 ELSE 0)
                IN  /\ reads' = reads + issued
                    /\ IF potential_next_recipes = {}
                       THEN \* break, then return recipe_list
                            /\ pc' = "done"
                            /\ result' = Return(recipe_list)
                            /\ UNCHANGED selection
                       ELSE \E next_recipe \in potential_next_recipes :
                            /\ recipe_list' = recipe_list \cup {next_recipe}
                            /\ current_recipe' = next_recipe
                            /\ via' = [via EXCEPT ![next_recipe] =
                                           IF fallback THEN "fallback" ELSE "overlap"]
                            /\ UNCHANGED <<pc, result>>

\* line 726 false, line 757: the loop ends and the set is returned
MealPlanReturn ==
    /\ pc = "loop"
    /\ ~LoopContinues(call.num_recipes)
    /\ pc' = "done"
    /\ result' = Return(recipe_list)
    /\ UNCHANGED <<store, call, walk, reads>>

\* ------------------------------------------- the meal planner on a store
\* the rows of a relation between recipes and ingredients, every quantity 1
PlanRows(rel) ==
    {Row((p[1] - 1) * MaxIngredients + p[2], p[1], p[2], 1) : p \in rel}

InitCall ==
    /\ pc = "idle"
    /\ call = NoCall
    /\ recipe_list = {}
    /\ current_recipe = NoRecipe
    /\ via = [r \in RecipeIds |-> "none"]
    /\ reads = 0
    /\ iterations = 0
    /\ result = NoResult

\* any store over the recipe and ingredient ids
InitPlan ==
    /\ \E rs \in SUBSET RecipeIds : recipes = [r \in rs |-> 1]
    /\ ingredients = IngredientIds
    /\ \E rel \in SUBSET (RecipeIds \X IngredientIds) :
           /\ \A p \in rel : p[1] \in DOMAIN recipes
           /\ recipe_ingredients = PlanRows(rel)
    /\ InitCall

NextPlan ==
    \/ \E n \in (-1)..MaxTarget : StartMealPlan(n)
    \/ MealPlanIteration
    \/ MealPlanReturn

SpecPlan == InitPlan /\ [][NextPlan]_vars

\* the ids of the stores on which termination is checked: three recipes over
\* two ingredients give shared, disjoint and missing rows in every combination
WalkRecipeIds == {1, 2, 3}
WalkIngredientIds == {1, 2}

InitPlanFair ==
    /\ \E rs \in SUBSET WalkRecipeIds : recipes = [r \in rs |-> 1]
    /\ ingredients = IngredientIds
    /\ \E rel \in SUBSET (WalkRecipeIds \X WalkIngredientIds) :
           /\ \A p \in rel : p[1] \in DOMAIN recipes
           /\ recipe_ingredients = PlanRows(rel)
    /\ InitCall

\* generate_meal_plan runs in the caller's thread: once the loop is entered its
\* next step, an iteration or the return, is taken
SpecPlanFair ==
    /\ InitPlanFair /\ [][NextPlan]_vars
    /\ WF_vars(MealPlanIteration) /\ WF_vars(MealPlanReturn)

\* concurrent session: delete_recipe_by_id of an existing recipe while the
\* walk is between two iterations; the rows of the recipe go with it (cascade)
ConcurrentDeleteRecipe(id) ==
    /\ pc = "loop"
    /\ id \in DOMAIN recipes
    /\ recipes' = [r \in DOMAIN recipes \ {id} |-> recipes[r]]
    /\ recipe_ingredients' = {l \in recipe_ingredients : l.recipe_id # id}
    /\ UNCHANGED <<ingredients, pc, call, walk, reads, result>>

\* non-empty stores in which every recipe has rows: a NotFoundError met by the
\* walk can then only come from a concurrent deletion
InitPlanConc ==
    /\ InitPlan
    /\ DOMAIN recipes # {}
    /\ \A r \in DOMAIN recipes : \E l \in recipe_ingredients : l.recipe_id = r

NextPlanConc ==
    \/ \E n \in 1..MaxTarget : StartMealPlan(n)
    \/ MealPlanIteration
    \/ MealPlanReturn
    \/ \E id \in RecipeIds : ConcurrentDeleteRecipe(id)

SpecPlanConc == InitPlanConc /\ [][NextPlanConc]_vars

\* ------------------------------------------------------------- scaling
\* dict assignment d[k] = v
DictSet(d, k, v) == [x \in DOMAIN d \cup {k} |-> IF x = k THEN v ELSE d[x]]
EmptyDict == [x \in {} |-> FZero]

\* adjust_recipe_by_servings with the multiplier computed as servings / recipe_serving
ServingMultiplierQuotient(recipe_serving, servings) ==
    FDivInt(servings, recipe_serving)

\* line 697: serving_multiplier = (1/recipe_serving)*servings
ServingMultiplier(recipe_serving, servings) ==
    FMul(FDivInt(1, recipe_serving), FromInt(servings))

\* the loop storing each row's quantity without applying the multiplier
RECURSIVE AdjustLoopUnscaled(_, _, _)
AdjustLoopUnscaled(links, serving_multiplier, updated_quantities) ==
    IF links = <<>> THEN updated_quantities
    ELSE AdjustLoopUnscaled(Tail(links), serving_multiplier,
                            DictSet(updated_quantities, Head(links).ingredient_id,
                                    FromInt(Head(links).ingredient_quantity)))

\* lines 699-703: the loop over the recipe's rows
RECURSIVE AdjustLoop(_, _, _)
AdjustLoop(links, serving_multiplier, updated_quantities) ==
    IF links = <<>> THEN updated_quantities
    ELSE AdjustLoop(Tail(links), serving_multiplier,
                    DictSet(updated_quantities, Head(links).ingredient_id,
                            FMul(FromInt(Head(links).ingredient_quantity),
                                 serving_multiplier)))

\* lines 689-704
adjust_recipe_by_servings(recipe_id, servings) ==
    LET recipe == get_recipe_by_id(recipe_id)
    IN  IF recipe.status # "ok" THEN Raise("NotFoundError")
        ELSE IF recipe.value = 0 THEN Raise("ZeroDivisionError")
        ELSE LET recipe_ingredients_of == get_all_recipe_ingredients(recipe_id)
             IN  IF recipe_ingredients_of.status # "ok" THEN Raise("NotFoundError")
                 ELSE Return(AdjustLoop(recipe_ingredients_of.value,
                                        ServingMultiplier(recipe.value, servings),
                                        EmptyDict))

\* lines 55-58: the four macro fields (stored on Recipe)
MacroComponents == {"calories", "protein", "fat", "carbs"}

\* lines 674, 704: the value returned is updated_quantities alone; the macro
\* fields of the recipe are neither read nor scaled, so it carries none
ReturnedMacros(value) == [m \in {} |-> FZero]

\* the loop assigning each row's scaled quantity instead of accumulating it
RECURSIVE AccumulateLoopOverwrite(_, _, _)
AccumulateLoopOverwrite(links, serving_multiplier, shopping_list) ==
    IF links = <<>> THEN shopping_list
    ELSE AccumulateLoopOverwrite(Tail(links), serving_multiplier,
             DictSet(shopping_list, Head(links).ingredient_id,
                     FMul(FromInt(Head(links).ingredient_quantity),
                          serving_multiplier)))

\* lines 781-790: the loop over one recipe's rows
RECURSIVE AccumulateLoop(_, _, _)
AccumulateLoop(links, serving_multiplier, shopping_list) ==
    IF links = <<>> THEN shopping_list
    ELSE LET ingredient_id == Head(links).ingredient_id
             quantity == IF ingredient_id \in DOMAIN shopping_list
                         THEN shopping_list[ingredient_id] ELSE FZero
         IN  AccumulateLoop(Tail(links), serving_multiplier,
                 DictSet(shopping_list, ingredient_id,
                         FAdd(quantity,
                              FMul(FromInt(Head(links).ingredient_quantity),
                                   serving_multiplier))))

\* the loop with the multiplier computed as adjust_recipe_by_servings does
RECURSIVE ShoppingLoopReciprocal(_, _, _)
ShoppingLoopReciprocal(order, servings, shopping_list) ==
    IF order = <<>> THEN Return(shopping_list)
    ELSE LET recipe == Head(order)
             links == get_all_recipe_ingredients(recipe.recipe_id)
         IN  IF links.status # "ok" THEN Raise("NotFoundError")
             ELSE IF recipe.recipe_servings = 0 THEN Raise("ZeroDivisionError")
             ELSE ShoppingLoopReciprocal(Tail(order), servings,
                      AccumulateLoop(links.value,
                                     ServingMultiplier(recipe.recipe_servings, servings),
                                     shopping_list))

\* lines 774-793, the recipes of recipe_set iterated in the given order
RECURSIVE ShoppingLoop(_, _, _)
ShoppingLoop(order, servings, shopping_list) ==
    IF order = <<>> THEN Return(shopping_list)
    ELSE LET recipe == Head(order)
             links == get_all_recipe_ingredients(recipe.recipe_id)
         IN  IF links.status # "ok" THEN Raise("NotFoundError")
             ELSE IF recipe.recipe_servings = 0 THEN Raise("ZeroDivisionError")
             ELSE ShoppingLoop(Tail(order), servings,
                      AccumulateLoop(links.value,
                                     FDivInt(servings, recipe.recipe_servings),
                                     shopping_list))

get_shopping_list(servings, order) == ShoppingLoop(order, servings, EmptyDict)

\* the Recipe object of a stored recipe
RecipeObject(id) == [recipe_id |-> id, recipe_servings |-> recipes[id]]

\* the orders in which a set can be iterated
RECURSIVE Orders(_)
Orders(S) ==
    IF S = {} THEN {<<>>}
    ELSE UNION {{<<x>> \o q : q \in Orders(S \ {x})} : x \in S}

CallGetAllRecipeIngredients(recipe) ==
    /\ pc = "idle"
    /\ call' = [op |-> "get_all_recipe_ingredients", recipe |-> recipe]
    /\ result' = get_all_recipe_ingredients(recipe)
    /\ pc' = "done"
    /\ UNCHANGED <<store, walk, reads>>

\* the call storing the target as the recipe's new number of servings
CallAdjustRecipeByServingsPersisting(recipe_id, servings) ==
    /\ pc = "idle"
    /\ call' = [op |-> "adjust_recipe_by_servings", recipe_id |-> recipe_id,
                servings |-> servings]
    /\ result' = adjust_recipe_by_servings(recipe_id, servings)
    /\ pc' = "done"
    /\ recipes' = [r \in DOMAIN recipes |->
                       IF r = recipe_id THEN servings ELSE recipes[r]]
    /\ UNCHANGED <<ingredients, recipe_ingredients, walk, reads>>

CallAdjustRecipeByServings(recipe_id, servings) ==
    /\ pc = "idle"
    /\ call' = [op |-> "adjust_recipe_by_servings", recipe_id |-> recipe_id,
                servings |-> servings]
    /\ result' = adjust_recipe_by_servings(recipe_id, servings)
    /\ pc' = "done"
    /\ UNCHANGED <<store, walk, reads>>

CallGetShoppingList(servings, recipe_ids) ==
    /\ pc = "idle"
    /\ \E order \in Orders({RecipeObject(id) : id \in recipe_ids}) :
           /\ call' = [op |-> "get_shopping_list", servings |-> servings,
                       recipe_set |-> recipe_ids, order |-> order]
           /\ result' = get_shopping_list(servings, order)
    /\ pc' = "done"
    /\ UNCHANGED <<store, walk, reads>>

\* the values the scaling inputs are drawn from
ServingsValues == {-2, 0, 4, 5}
QuantityValues == {200, 300}
TargetServings == {0, 3, 4, 8}
\* adjust_recipe_by_servings reads one recipe and get_shopping_list is run on
\* one recipe or on a pair: two recipe ids give every such store
ScaleRecipeIds == {1, 2}

\* the rows of a partial map from (recipe, ingredient) to a quantity
ScaleRows(qty) ==
    {Row((p[1] - 1) * MaxIngredients + p[2], p[1], p[2], qty[p]) : p \in DOMAIN qty}

\* X in A (quantity 100, servings 4) and in B (quantity 50, servings 2)
SharedIngredientExample ==
    [recipes |-> (1 :> 4) @@ (2 :> 2),
     rows |-> {Row(1, 1, 1, 100), Row(2, 2, 1, 50)}]

\* any store of at most MaxLinks rows over the scaling ids and values
InitScale ==
    /\ ingredients = IngredientIds
    /\ \/ \E rs \in SUBSET ScaleRecipeIds :
          \E sv \in [rs -> ServingsValues] :
          \E ps \in SUBSET (rs \X IngredientIds) :
          \E qty \in [ps -> QuantityValues] :
              /\ Cardinality(ps) <= MaxLinks
              /\ recipes = sv
              /\ recipe_ingredients = ScaleRows(qty)
       \/ /\ recipes = SharedIngredientExample.recipes
          /\ recipe_ingredients = SharedIngredientExample.rows
    /\ InitCall

NextScale ==
    \/ \E r \in ScaleRecipeIds : CallGetAllRecipeIngredients(r)
    \/ \E r \in ScaleRecipeIds, t \in TargetServings : CallAdjustRecipeByServings(r, t)
    \/ \E t \in TargetServings : \E rs \in SUBSET DOMAIN recipes :
           CallGetShoppingList(t, rs)

SpecScale == InitScale /\ [][NextScale]_vars

\* the three read operations together, on the stores of the scaling operations
NextRead ==
    \/ \E n \in (-1)..MaxTarget : StartMealPlan(n)
    \/ MealPlanIteration
    \/ MealPlanReturn
    \/ \E r \in ScaleRecipeIds, t \in TargetServings : CallAdjustRecipeByServings(r, t)
    \/ \E t \in TargetServings : \E rs \in SUBSET DOMAIN recipes :
           CallGetShoppingList(t, rs)

SpecRead == InitScale /\ [][NextRead]_vars

\* ------------------------------------------- writes to recipe_ingredients
\* a call may start when no meal-plan walk is under way
StoreReady == pc \in {"idle", "done"}

\* the value of a function that returns None
None == <<>>

\* lines 511, 131: IntegrityError is sqlalchemy.exc.IntegrityError (line 2), a
\* DBAPIError whose constructor takes (statement, params, orig); constructed
\* from a single argument the constructor itself raises TypeError, and that is
\* the exception the raise statement propagates
IntegrityErrorOfMessage == "TypeError"

\* the rows of a (recipe, ingredient) pair
PairRows(recipe, ingredient) ==
    {l \in recipe_ingredients : l.recipe_id = recipe /\ l.ingredient_id = ingredient}

\* .first() of a select without ORDER BY: the row with the least primary key
FirstRow(rows) == RowSeq(rows)[1]

\* lines 412-442: the association of a pair, NotFoundError when the recipe is
\* missing or the pair has no row
get_recipe_ingredient(recipe, ingredient) ==
    IF get_recipe_by_id(recipe).status # "ok" THEN Raise("NotFoundError")
    ELSE IF PairRows(recipe, ingredient) # {}
         THEN Return(FirstRow(PairRows(recipe, ingredient)))
         ELSE Raise("NotFoundError")

\* autoincrement: the primary key of a new row
NextRowId ==
    IF recipe_ingredients = {} THEN 1
    ELSE 1 + (CHOOSE n \in {l.recipe_ingredients_id : l \in recipe_ingredients} :
                  \A l \in recipe_ingredients : l.recipe_ingredients_id <= n)

\* lines 505-509: session.add of the new row and a commit that succeeds
InsertRow(recipe, ingredient, qty) ==
    /\ recipe_ingredients' =
           recipe_ingredients \cup {Row(NextRowId, recipe, ingredient, qty)}
    /\ result' = Return(NextRowId)

\* lines 127-131: a commit the database rejects is rolled back, and the
\* handler's raise IntegrityError(e) is reached
CommitRejected ==
    /\ recipe_ingredients' = recipe_ingredients
    /\ result' = Raise(IntegrityErrorOfMessage)

\* lines 495-511.  The existence of the ingredient is not looked up: for a
\* missing ingredient the row is stored when the database does not enforce
\* foreign keys (SQLite unless the pragma is set; the engine is configured by
\* the environment), and the commit is rejected when it does.
add_recipe_ingredients(recipe, ingredient, qty) ==
    /\ StoreReady
    /\ call' = [op |-> "add_recipe_ingredients", recipe |-> recipe,
                ingredient |-> ingredient, qty |-> qty]
    /\ pc' = "done"
    /\ UNCHANGED <<recipes, ingredients, walk, reads>>
    /\ IF get_recipe_by_id(recipe).status # "ok"
       THEN /\ result' = Raise("NotFoundError")
            /\ UNCHANGED recipe_ingredients
       ELSE IF get_recipe_ingredient(recipe, ingredient).status = "ok"
       THEN /\ result' = Raise(IntegrityErrorOfMessage)
            /\ UNCHANGED recipe_ingredients
       ELSE /\ NextRowId <= MaxRowId
            /\ IF ingredient \in ingredients
               THEN InsertRow(recipe, ingredient, qty)
               ELSE \/ InsertRow(recipe, ingredient, qty)
                    \/ CommitRejected

\* lines 529-557: the UPDATE of the rows of the pair; its row count is not
\* looked at and None is returned
update_recipe_qty(recipe, ingredient, quantity) ==
    /\ StoreReady
    /\ call' = [op |-> "update_recipe_qty", recipe |-> recipe,
                ingredient |-> ingredient, quantity |-> quantity]
    /\ pc' = "done"
    /\ UNCHANGED <<recipes, ingredients, walk, reads>>
    /\ IF get_recipe_by_id(recipe).status # "ok"
       THEN /\ result' = Raise("NotFoundError")
            /\ UNCHANGED recipe_ingredients
       ELSE /\ recipe_ingredients' =
                   {IF l \in PairRows(recipe, ingredient)
                    THEN [l EXCEPT !.ingredient_quantity = quantity]
                    ELSE l : l \in recipe_ingredients}
            /\ result' = Return(None)

\* lines 575-589
delete_recipe_ingredient(recipe, ingredient) ==
    /\ StoreReady
    /\ call' = [op |-> "delete_recipe_ingredient", recipe |-> recipe,
                ingredient |-> ingredient]
    /\ pc' = "done"
    /\ UNCHANGED <<recipes, ingredients, walk, reads>>
    /\ IF get_recipe_by_id(recipe).status # "ok" \/ PairRows(recipe, ingredient) = {}
       THEN /\ result' = Raise("NotFoundError")
            /\ UNCHANGED recipe_ingredients
       ELSE LET recipe_ingredient == FirstRow(PairRows(recipe, ingredient))
            IN  /\ recipe_ingredients' = recipe_ingredients \ {recipe_ingredient}
                /\ result' = Return(recipe_ingredient.recipe_ingredients_id)

\* lines 605-619
delete_all_recipe_ingredients(recipe) ==
    /\ StoreReady
    /\ call' = [op |-> "delete_all_recipe_ingredients", recipe |-> recipe]
    /\ pc' = "done"
    /\ UNCHANGED <<recipes, ingredients, walk, reads>>
    /\ IF get_recipe_by_id(recipe).status # "ok"
       THEN /\ result' = Raise("NotFoundError")
            /\ UNCHANGED recipe_ingredients
       ELSE /\ recipe_ingredients' = {l \in recipe_ingredients : l.recipe_id # recipe}
            /\ result' = Return(recipe)

\* a deletion that leaves the rows of the recipe in place
RowsAfterRecipeDeleteNoCascade(id) == recipe_ingredients

\* lines 60-63: cascade "all, delete-orphan" of Recipe.ingredient_associations
RowsAfterRecipeDelete(id) == {l \in recipe_ingredients : l.recipe_id # id}

\* lines 33-36: cascade "all, delete-orphan" of Ingredient.recipe_associations
RowsAfterIngredientDelete(id) == {l \in recipe_ingredients : l.ingredient_id # id}

\* lines 374-379
delete_recipe_by_id(id) ==
    /\ StoreReady
    /\ call' = [op |-> "delete_recipe_by_id", id |-> id]
    /\ pc' = "done"
    /\ UNCHANGED <<ingredients, walk, reads>>
    /\ IF id \notin DOMAIN recipes
       THEN /\ result' = Raise("NotFoundError")
            /\ UNCHANGED <<recipes, recipe_ingredients>>
       ELSE /\ recipes' = [r \in DOMAIN recipes \ {id} |-> recipes[r]]
            /\ recipe_ingredients' = RowsAfterRecipeDelete(id)
            /\ result' = Return(id)

\* lines 258-263
delete_ingredient_by_id(id) ==
    /\ StoreReady
    /\ call' = [op |-> "delete_ingredient_by_id", id |-> id]
    /\ pc' = "done"
    /\ UNCHANGED <<recipes, walk, reads>>
    /\ IF id \notin ingredients
       THEN /\ result' = Raise("NotFoundError")
            /\ UNCHANGED <<ingredients, recipe_ingredients>>
       ELSE /\ ingredients' = ingredients \ {id}
            /\ recipe_ingredients' = RowsAfterIngredientDelete(id)
            /\ result' = Return(id)

\* the ids and quantities the write operations are called with
StoreRecipeIds == {1, 2}
StoreIngredientIds == {1, 2}
StoreQuantities == {1, 2}

\* recipes and ingredients have been created, no ingredient is linked yet
InitStore ==
    /\ \E rs \in SUBSET StoreRecipeIds : recipes = [r \in rs |-> 1]
    /\ \E is \in SUBSET StoreIngredientIds : ingredients = is
    /\ recipe_ingredients = {}
    /\ InitCall

NextStore ==
    \/ \E r \in StoreRecipeIds, i \in StoreIngredientIds, q \in StoreQuantities :
           add_recipe_ingredients(r, i, q)
    \/ \E r \in StoreRecipeIds, i \in StoreIngredientIds, q \in StoreQuantities :
           update_recipe_qty(r, i, q)
    \/ \E r \in StoreRecipeIds, i \in StoreIngredientIds :
           delete_recipe_ingredient(r, i)
    \/ \E r \in StoreRecipeIds : delete_all_recipe_ingredients(r)
    \/ \E r \in StoreRecipeIds : delete_recipe_by_id(r)
    \/ \E i \in StoreIngredientIds : delete_ingredient_by_id(i)

SpecStore == InitStore /\ [][NextStore]_vars

\* ------------------------------------------------------------ properties
PlanDone == pc = "done" /\ call.op = "generate_meal_plan"
TotalRecipes == Cardinality(DOMAIN recipes)
RowsOf(r) == {l \in recipe_ingredients : l.recipe_id = r}
IngredientsOf(r) == {l.ingredient_id : l \in RowsOf(r)}
Shares(a, b) == IngredientsOf(a) \cap IngredientsOf(b) # {}

\* the recipes reachable from those of S along shared ingredients
RECURSIVE Reach(_)
Reach(S) ==
    LET T == S \cup {b \in DOMAIN recipes : \E a \in S : Shares(a, b)}
    IN  IF T = S THEN S ELSE Reach(T)

\* the shared-ingredient graph of the store is connected
Connected == \A r \in DOMAIN recipes : Reach({r}) = DOMAIN recipes

\* C1: on a store whose shared-ingredient graph is connected, a finished
\* generate_meal_plan(n) with 0 < n <= totalRecipes has returned a set of
\* exactly n recipes of the store, whatever start and next recipes were drawn.
C1_ExactlyN ==
    (PlanDone /\ Connected /\ 0 < call.num_recipes /\ call.num_recipes <= TotalRecipes)
        => /\ result.status = "ok"
           /\ result.value \subseteq DOMAIN recipes
           /\ Cardinality(result.value) = call.num_recipes

\* a connected store of three recipes, one of them reached by the fallback
\* (it shares nothing with the recipe the walk stood on), planned in full
C1_Witness ==
    /\ PlanDone /\ Connected /\ TotalRecipes = 3 /\ call.num_recipes = 3
    /\ result.status = "ok" /\ Cardinality(result.value) = 3
    /\ \E r \in DOMAIN recipes : via[r] = "fallback"

\* C2: on a non-empty store, a finished generate_meal_plan(n) with
\* n > totalRecipes has returned, as a normal result, exactly the recipes of
\* the store.
C2_ExhaustionReturnsAll ==
    (PlanDone /\ TotalRecipes > 0 /\ call.num_recipes > TotalRecipes)
        => /\ result.status = "ok"
           /\ result.value = DOMAIN recipes

\* C3: a run of generate_meal_plan during which recipes are deleted by another
\* session is not aborted: it ends with a meal plan as its result.
C3_DeletionDoesNotAbort ==
    PlanDone => result.status = "ok"

\* C4: generate_meal_plan(n), n > 0, on a store without recipes ends with the
\* NoRecipesAvailable error.
C4_NoRecipesAvailable ==
    (PlanDone /\ call.num_recipes > 0 /\ TotalRecipes = 0)
        => result.status = "NoRecipesAvailable"

\* C5: generate_meal_plan(n) with n <= 0 returns the empty set, whatever the
\* store holds, and has issued no query to the store.
C5_EmptyPlanNoReads ==
    (PlanDone /\ call.num_recipes <= 0)
        => /\ result = Return({})
           /\ reads = 0

\* generate_meal_plan(0) has returned on a store that holds recipes
C5_Witness ==
    /\ PlanDone /\ call.num_recipes = 0 /\ TotalRecipes > 0
    /\ result = Return({}) /\ reads = 0

\* C6: in a store of three recipes A, B, C where A and B share an ingredient and
\* C shares none with either, C is never selected as a shared-ingredient
\* candidate, and every finished generate_meal_plan(3) has returned 3 recipes.
C6_ThreeWithFallback ==
    \A a, b, c \in DOMAIN recipes :
        (DOMAIN recipes = {a, b, c} /\ TotalRecipes = 3
         /\ Shares(a, b) /\ ~Shares(c, a) /\ ~Shares(c, b))
            => /\ via[c] # "overlap"
               /\ (PlanDone /\ call.num_recipes = 3)
                      => (result.status = "ok" /\ Cardinality(result.value) = 3)

\* C7 as stated: get_all_recipe_ingredients of a recipe that exists but has no
\* rows returns an empty sequence, and NotFoundError is raised only when the
\* recipe is missing.
C7_EmptyWhenNoIngredients ==
    (pc = "done" /\ call.op = "get_all_recipe_ingredients")
        => /\ (call.recipe \in DOMAIN recipes /\ RowsOf(call.recipe) = {})
                  => result = Return(<<>>)
           /\ result.status = "NotFoundError" => call.recipe \notin DOMAIN recipes

\* C7 amended: get_all_recipe_ingredients raises NotFoundError when the recipe
\* is missing and also when it exists but has no rows; otherwise it returns the
\* recipe's rows, a non-empty sequence.
C7_NotFoundWhenNoIngredients ==
    (pc = "done" /\ call.op = "get_all_recipe_ingredients")
        => IF call.recipe \notin DOMAIN recipes \/ RowsOf(call.recipe) = {}
           THEN result = Raise("NotFoundError")
           ELSE /\ result.status = "ok"
                /\ result.value # <<>>
                /\ SeqRange(result.value) = RowsOf(call.recipe)
                /\ Len(result.value) = Cardinality(RowsOf(call.recipe))

\* get_all_recipe_ingredients was called on a stored recipe without rows
C7_Witness ==
    /\ pc = "done" /\ call.op = "get_all_recipe_ingredients"
    /\ call.recipe \in DOMAIN recipes /\ RowsOf(call.recipe) = {}
    /\ result = Raise("NotFoundError")

AdjustDone == pc = "done" /\ call.op = "adjust_recipe_by_servings"

\* C8: adjust_recipe_by_servings of a stored recipe whose servings is <= 0 fails
\* for every target and returns no quantity mapping (stated at its weakest: any
\* error counts as the failure).
C8_NonPositiveServingsFails ==
    (AdjustDone /\ call.recipe_id \in DOMAIN recipes /\ recipes[call.recipe_id] <= 0)
        => result.status # "ok"

\* C9: get_shopping_list over a recipe set that holds a recipe with servings <= 0
\* fails and returns no mapping, in whatever order the set is iterated (stated at
\* its weakest: any error counts as the failure).
C9_ShoppingListFails ==
    (pc = "done" /\ call.op = "get_shopping_list"
     /\ \E r \in call.recipe_set : recipes[r] <= 0)
        => result.status # "ok"

\* C10: adjust_recipe_by_servings of a recipe with servings > 0 (and rows)
\* returns a mapping over exactly the ingredients of the recipe's rows, each
\* quantity being quantity * targetServings / servings: the correctly rounded
\* quotient, or the product by the multiplier targetServings / servings.
C10_ScaledQuantities ==
    (AdjustDone /\ call.recipe_id \in DOMAIN recipes
     /\ recipes[call.recipe_id] > 0 /\ RowsOf(call.recipe_id) # {})
        => /\ result.status = "ok"
           /\ DOMAIN result.value = IngredientsOf(call.recipe_id)
           /\ \A l \in RowsOf(call.recipe_id) :
                  \/ result.value[l.ingredient_id] =
                         FDivInt(l.ingredient_quantity * call.servings,
                                 recipes[call.recipe_id])
                  \/ result.value[l.ingredient_id] =
                         FMul(FromInt(l.ingredient_quantity),
                              FDivInt(call.servings, recipes[call.recipe_id]))

\* the result adjust_recipe_by_servings gives for the recipe's own servings
BaseScale == adjust_recipe_by_servings(call.recipe_id, recipes[call.recipe_id])
FTwo == FromInt(2)

\* the case of C11: a stored recipe with servings > 0 and rows scaled to twice
\* its servings
DoubledCall ==
    /\ AdjustDone /\ call.recipe_id \in DOMAIN recipes
    /\ recipes[call.recipe_id] > 0 /\ RowsOf(call.recipe_id) # {}
    /\ call.servings = 2 * recipes[call.recipe_id]

\* the quantities of C11: every quantity returned for 2 * servings is twice
\* the quantity returned for servings
C11_QuantitiesDouble ==
    DoubledCall
        => /\ result.status = "ok" /\ BaseScale.status = "ok"
           /\ DOMAIN result.value = DOMAIN BaseScale.value
           /\ \A i \in DOMAIN result.value :
                  result.value[i] = FMul(FTwo, BaseScale.value[i])

\* C11: adjust_recipe_by_servings to 2 * recipe.servings returns every
\* ingredient quantity and every one of the four macro components (calories,
\* protein, fat, carbs) at double the value returned for recipe.servings.
C11_DoublesQuantitiesAndMacros ==
    DoubledCall
        => /\ C11_QuantitiesDouble
           /\ \A m \in MacroComponents :
                  /\ m \in DOMAIN ReturnedMacros(result.value)
                  /\ m \in DOMAIN ReturnedMacros(BaseScale.value)
                  /\ ReturnedMacros(result.value)[m] =
                         FMul(FTwo, ReturnedMacros(BaseScale.value)[m])

\* the case of C12: a stored recipe with servings > 0 scaled to 0 servings
ZeroTargetCall ==
    /\ AdjustDone /\ call.recipe_id \in DOMAIN recipes
    /\ recipes[call.recipe_id] > 0 /\ call.servings = 0

\* a mapping with one entry per row of the recipe, every quantity zero
AllZeroMapping ==
    /\ result.status = "ok"
    /\ DOMAIN result.value = IngredientsOf(call.recipe_id)
    /\ Cardinality(DOMAIN result.value) = Cardinality(RowsOf(call.recipe_id))
    /\ \A i \in DOMAIN result.value : result.value[i] = FZero

ShoppingDone == pc = "done" /\ call.op = "get_shopping_list"

\* C13: get_shopping_list(s, {A}) gives what adjust_recipe_by_servings(A, s)
\* gives: the same keys with equal quantities, or the same failure.
C13_SingleRecipeEqualsAdjust ==
    \A a \in DOMAIN recipes :
        (ShoppingDone /\ call.recipe_set = {a})
            => result = adjust_recipe_by_servings(a, call.servings)

\* the orders in which the recipe set of the call can be iterated
CallOrders == Orders({RecipeObject(id) : id \in call.recipe_set})

\* C14: get_shopping_list over two recipes does not depend on the order in
\* which they are processed: every order succeeds with the mapping returned
\* (same keys, same totals), or every order fails.
C14_OrderIndependent ==
    (ShoppingDone /\ Cardinality(call.recipe_set) = 2)
        => \A order \in CallOrders :
               LET other == get_shopping_list(call.servings, order)
               IN  /\ (other.status = "ok") <=> (result.status = "ok")
                   /\ result.status = "ok" => other.value = result.value

\* two recipes sharing an ingredient, with different scaled quantities of it,
\* were processed in descending id order, and the list was returned
C14_Witness ==
    /\ ShoppingDone /\ Cardinality(call.recipe_set) = 2
    /\ call.order[1].recipe_id > call.order[2].recipe_id
    /\ result.status = "ok"
    /\ \E i \in IngredientsOf(call.order[1].recipe_id) \cap
                  IngredientsOf(call.order[2].recipe_id) :
           get_shopping_list(call.servings, <<call.order[1]>>).value[i] #
               get_shopping_list(call.servings, <<call.order[2]>>).value[i]

\* the sum, over the recipes of S that have a row of ingredient i, of
\* quantity * (servings / recipe servings)
RECURSIVE ExpectedTotal(_, _, _)
ExpectedTotal(i, S, servings) ==
    IF S = {} THEN FZero
    ELSE LET r == CHOOSE x \in S : \A y \in S : x >= y
             rest == ExpectedTotal(i, S \ {r}, servings)
             row == CHOOSE l \in RowsOf(r) : l.ingredient_id = i
         IN  IF i \in IngredientsOf(r)
             THEN FAdd(rest, FMul(FromInt(row.ingredient_quantity),
                                  FDivInt(servings, recipes[r])))
             ELSE rest

\* one entry per distinct ingredient of the rows of the set's recipes, holding
\* the sum of the scaled quantities
AggregatedMapping ==
    /\ result.status = "ok"
    /\ DOMAIN result.value = UNION {IngredientsOf(r) : r \in call.recipe_set}
    /\ \A i \in DOMAIN result.value :
           result.value[i] = ExpectedTotal(i, call.recipe_set, call.servings)

\* get_shopping_list has run on recipes whose servings are all positive
ShoppingDoneValid ==
    ShoppingDone /\ \A r \in call.recipe_set : recipes[r] > 0

\* C15 as stated: get_shopping_list returns exactly one entry per distinct
\* ingredient_id linked by any recipe of the set, its total the sum over those
\* recipes of quantity * servings / recipe servings.
C15_OneEntryPerIngredient ==
    ShoppingDoneValid => AggregatedMapping

\* C15 amended: it does so when every recipe of the set has at least one row;
\* when a recipe of the set has none it raises NotFoundError.
C15_OneEntryPerIngredientWithRows ==
    ShoppingDoneValid
        => IF \A r \in call.recipe_set : RowsOf(r) # {}
           THEN AggregatedMapping
           ELSE result = Raise("NotFoundError")

\* the example of C15: X in A (100, servings 4) and in B (50, servings 2) at
\* 4 servings totals 200
C15_Witness ==
    /\ ShoppingDoneValid /\ call.recipe_set = {1, 2} /\ call.servings = 4
    /\ recipes = SharedIngredientExample.recipes
    /\ recipe_ingredients = SharedIngredientExample.rows
    /\ result = Return(1 :> FromInt(200))

\* at most one row per (recipe_id, ingredient_id) pair
AtMostOneLinkPerPair ==
    \A l, k \in recipe_ingredients :
        (l.recipe_id = k.recipe_id /\ l.ingredient_id = k.ingredient_id) => l = k

\* the step is a call of add_recipe_ingredients on a pair that has a row
AddOnLinkedPair ==
    /\ call'.op = "add_recipe_ingredients"
    /\ PairRows(call'.recipe, call'.ingredient) # {}

\* C16: after every step of the write operations the store holds at most one
\* row per (recipe_id, ingredient_id) pair, and add_recipe_ingredients on a
\* pair that already has a row fails with IntegrityError and leaves the rows,
\* the quantity of the existing one included, unchanged.
C16_UniquePairIntegrityError ==
    [][/\ AtMostOneLinkPerPair'
       /\ AddOnLinkedPair
              => /\ result'.status = "IntegrityError"
                 /\ recipe_ingredients' = recipe_ingredients]_vars

\* the part of C16 about the store alone: the pair stays unique and the failed
\* add changes no row
C16_UniquePairNoChange ==
    [][/\ AtMostOneLinkPerPair'
       /\ AddOnLinkedPair
              => /\ result'.status # "ok"
                 /\ recipe_ingredients' = recipe_ingredients]_vars

\* every row names a stored ingredient
NoLinkToMissingIngredient ==
    \A l \in recipe_ingredients : l.ingredient_id \in ingredients

\* the step is a call of add_recipe_ingredients with a recipe id or an
\* ingredient id that is not in the store
AddWithMissingEndpoint ==
    /\ call'.op = "add_recipe_ingredients"
    /\ (call'.recipe \notin DOMAIN recipes \/ call'.ingredient \notin ingredients)

\* C17: add_recipe_ingredients with a missing recipe id or a missing
\* ingredient id raises NotFoundError and creates no row, so that no row ever
\* names a missing ingredient.
C17_MissingEndpointNotFound ==
    [][/\ AddWithMissingEndpoint
              => /\ result'.status = "NotFoundError"
                 /\ recipe_ingredients' = recipe_ingredients
       /\ NoLinkToMissingIngredient']_vars

\* the missing recipe alone: NotFoundError and no row
C17_MissingRecipeNotFound ==
    [][(call'.op = "add_recipe_ingredients" /\ call'.recipe \notin DOMAIN recipes)
           => /\ result'.status = "NotFoundError"
              /\ recipe_ingredients' = recipe_ingredients]_vars

\* the step is a call of update_recipe_qty for a missing recipe or for a
\* stored recipe that has no row of the ingredient
UpdateWithoutLink ==
    /\ call'.op = "update_recipe_qty"
    /\ \/ call'.recipe \notin DOMAIN recipes
       \/ PairRows(call'.recipe, call'.ingredient) = {}

\* C18: update_recipe_qty raises NotFoundError when the recipe is missing and
\* when the recipe is stored but has no row of the ingredient, and in both
\* cases leaves every row unchanged.
C18_UpdateWithoutLinkNotFound ==
    [][UpdateWithoutLink
           => /\ result'.status = "NotFoundError"
              /\ recipe_ingredients' = recipe_ingredients]_vars

\* the rows of C18 alone: an update without a row of the pair changes no row
C18_UpdateWithoutLinkNoChange ==
    [][UpdateWithoutLink => recipe_ingredients' = recipe_ingredients]_vars

\* C19: a step in which delete_recipe_by_id or delete_ingredient_by_id succeeds
\* leaves no row that names the deleted recipe or ingredient, and leaves the
\* rows that do not name it as they were.
C19_DeleteCascades ==
    [][/\ (call'.op = "delete_recipe_by_id" /\ result'.status = "ok")
              => /\ \A l \in recipe_ingredients' : l.recipe_id # call'.id
                 /\ recipe_ingredients' =
                        {l \in recipe_ingredients : l.recipe_id # call'.id}
       /\ (call'.op = "delete_ingredient_by_id" /\ result'.status = "ok")
              => /\ \A l \in recipe_ingredients' : l.ingredient_id # call'.id
                 /\ recipe_ingredients' =
                        {l \in recipe_ingredients : l.ingredient_id # call'.id}]_vars

\* delete_recipe_by_id has succeeded for a recipe; the row with primary key 1
\* is gone and the row with primary key 2, of another recipe, is still there
C19_Witness ==
    /\ pc = "done" /\ call.op = "delete_recipe_by_id" /\ result = Return(call.id)
    /\ call.id \notin DOMAIN recipes
    /\ \E l \in recipe_ingredients : l.recipe_ingredients_id = 2
    /\ \A l \in recipe_ingredients :
           l.recipe_ingredients_id # 1 /\ l.recipe_id \in DOMAIN recipes

\* the unvisited recipes that share an ingredient with the current recipe
UnvisitedSharers ==
    {b \in DOMAIN recipes \ recipe_list : Shares(current_recipe, b)}

\* the step adds a recipe to the plan of a walk already started
WalkStep == recipe_list # {} /\ recipe_list' # recipe_list

\* C20: in every step of the walk that chooses a recipe, the chosen recipe is
\* one unvisited recipe, it becomes the current one, it is a sharer of the
\* current recipe whenever an unvisited sharer exists (any other unvisited
\* recipe is chosen only when there is none); and an iteration that finds an
\* unvisited sharer does choose.
C20_NextAmongUnvisitedSharers ==
    [][/\ WalkStep
              => /\ \E next \in DOMAIN recipes \ recipe_list :
                        /\ recipe_list' = recipe_list \cup {next}
                        /\ current_recipe' = next
                 /\ UnvisitedSharers # {} => current_recipe' \in UnvisitedSharers
                 /\ current_recipe' \notin UnvisitedSharers => UnvisitedSharers = {}
       /\ (pc = "loop" /\ Cardinality(recipe_list) < call.num_recipes
            /\ UnvisitedSharers # {})
              => WalkStep /\ pc' = "loop"]_vars

\* after the start recipe the walk chose a sharer of it while another
\* unvisited recipe, which shares nothing with the start recipe, was left
\* aside, and then reached that one through the fallback
C20_Witness ==
    \E a, b, c \in DOMAIN recipes :
        /\ recipe_list = {a, b, c} /\ current_recipe = c
        /\ via[a] = "start" /\ via[b] = "overlap" /\ via[c] = "fallback"
        /\ Shares(a, b) /\ ~Shares(a, c) /\ ~Shares(b, c)

Min(a, b) == IF a <= b THEN a ELSE b

\* the step is an execution of the while body
IterationStep == pc = "loop" /\ iterations' = iterations + 1

\* C21: every run of generate_meal_plan terminates; each iteration of its loop
\* either adds exactly one recipe not yet in the plan or ends the run; and the
\* number of iterations is at most min(num_recipes, totalRecipes) (none at all
\* for num_recipes <= 0).
C21_TerminatesWithinBound ==
    /\ [][IterationStep
              => \/ /\ pc' = "loop"
                    /\ \E r \in DOMAIN recipes \ recipe_list :
                           recipe_list' = recipe_list \cup {r}
                 \/ /\ pc' = "done"
                    /\ recipe_list' = recipe_list]_vars
    /\ [](call.op = "generate_meal_plan"
              => IF call.num_recipes <= 0 THEN iterations = 0
                 ELSE iterations <= Min(call.num_recipes, TotalRecipes))
    /\ (pc = "loop" ~> pc = "done")

\* a run asked for more recipes than the store's three has ended after three
\* iterations: two that added a recipe and the one that found none left
C21_Witness ==
    /\ PlanDone /\ TotalRecipes = 3 /\ call.num_recipes > 3
    /\ iterations = 3 /\ result = Return(DOMAIN recipes)

\* C22: for num_recipes > 0, at every point of the walk recipe_list holds at
\* most num_recipes recipes, and so does the set the call returns.
C22_AtMostTargetCount ==
    (call.op = "generate_meal_plan" /\ call.num_recipes > 0)
        => /\ Cardinality(recipe_list) <= call.num_recipes
           /\ (pc = "done" /\ result.status = "ok")
                  => Cardinality(result.value) <= call.num_recipes

\* a plan of two recipes was returned from a store of three: the loop was
\* stopped by its bound while an unvisited recipe remained
C22_Witness ==
    /\ PlanDone /\ call.num_recipes = 2 /\ TotalRecipes = 3
    /\ result = Return(recipe_list) /\ Cardinality(recipe_list) = 2
    /\ iterations = 1

ReadOperations ==
    {"generate_meal_plan", "adjust_recipe_by_servings", "get_shopping_list"}

\* C23: a step of generate_meal_plan, adjust_recipe_by_servings or
\* get_shopping_list, ending in a result or in an error, leaves the recipes,
\* the ingredients and the rows (their quantities included) as they were.
C23_ReadOnly ==
    [][call'.op \in ReadOperations
           => /\ recipes' = recipes
              /\ ingredients' = ingredients
              /\ recipe_ingredients' = recipe_ingredients]_vars

\* adjust_recipe_by_servings has returned a quantity other than the stored one
\* for a recipe scaled away from its servings, and the recipe and its row are
\* as stored
C23_Witness ==
    /\ AdjustDone /\ result.status = "ok"
    /\ call.recipe_id \in DOMAIN recipes
    /\ recipes[call.recipe_id] = 4 /\ call.servings = 8
    /\ \E l \in RowsOf(call.recipe_id) :
           /\ l.ingredient_quantity = 200
           /\ result.value[l.ingredient_id] = FromInt(400)

====
